---------------------------- MODULE Spec2Model ----------------------------
(***************************************************************************)
(* Model of src/app.py: the Streamlit script that turns a multichannel     *)
(* TIFF volume (Z, C, X, Y) into one RGB composite per Z slice.            *)
(*                                                                         *)
(* Numbers are exact rationals <<num, den>> (den > 0, lowest terms); the   *)
(* rounding of float32/float64 is not modelled.  An ndarray is a record    *)
(* [shape, data] with data in C (row-major) order, and arrays live in a    *)
(* heap so that a view, an alias and a fresh allocation are different      *)
(* things.                                                                 *)
(***************************************************************************)
EXTENDS Integers, Sequences, FiniteSets, TLC

VARIABLES
    heap,           \* the arrays alive, by reference 1 .. Len(heap)
    orig,           \* direct calls: the argument array as first handed over
    call,           \* direct calls: the last call, its arguments and outcome
    pc,             \* script: where the run of app.py stands
    uploaded_file,  \* script: the array the uploaded TIFF decodes to
    widgets,        \* session: the values the widgets hold
    locals,         \* script: img, norm_img, rgb_stack (references), the
                    \*   per-channel lists and the loop index z
    page,           \* what the run has put on the page
    invoked,        \* the transform functions the run has called
    last            \* the RGB stack of the run before a re-upload

appvars == <<pc, uploaded_file, widgets, locals, page, invoked, last>>
vars == <<heap, orig, call, appvars>>

(***************************** bounds **************************************)
\* raw samples are the integers 0 .. MaxVal
MaxVal == 2
\* the channel axis has 1 .. MaxC entries
MaxC == 2
\* every other axis has 1 .. MaxAxis entries
MaxAxis == 2
\* an array holds at most MaxSize samples
MaxSize == 4
\* a caller makes at most MaxCalls direct calls on one volume
MaxCalls == 2

(*************************** rational numbers ******************************)
RECURSIVE GCD(_, _)
GCD(a, b) == IF b = 0 THEN a ELSE GCD(b, a % b)

Abs(n) == IF n < 0 THEN -n ELSE n

\* the rational n/d (d # 0) in lowest terms with a positive denominator
Rat(n, d) ==
    LET g == GCD(Abs(n), Abs(d))
        s == IF d < 0 THEN -1 ELSE 1
    IN  <<(s * n) \div g, (s * d) \div g>>

Num(n) == <<n, 1>>
Zero == Num(0)
One == Num(1)

RAdd(a, b) == Rat(a[1] * b[2] + b[1] * a[2], a[2] * b[2])
RSub(a, b) == Rat(a[1] * b[2] - b[1] * a[2], a[2] * b[2])
RMul(a, b) == Rat(a[1] * b[1], a[2] * b[2])
RDiv(a, b) == Rat(a[1] * b[2], a[2] * b[1])
RLt(a, b) == a[1] * b[2] < b[1] * a[2]
RLe(a, b) == a[1] * b[2] <= b[1] * a[2]
\* floor of a rational
RFloor(a) == a[1] \div a[2]

\* np.clip(v, lo, hi) of one sample
clip(v, lo, hi) == IF RLt(v, lo) THEN lo ELSE IF RLt(hi, v) THEN hi ELSE v

(******************************* ndarrays **********************************)
RECURSIVE ProdFrom(_, _)
ProdFrom(s, i) == IF i > Len(s) THEN 1 ELSE s[i] * ProdFrom(s, i + 1)

\* number of samples of an array of the given shape
Prod(s) == ProdFrom(s, 1)

ndim(a) == Len(a.shape)
size(a) == Prod(a.shape)

\* a[0] of an array with at least one axis: the first block, one axis less
Index0(a) ==
    [shape |-> Tail(a.shape), data |-> SubSeq(a.data, 1, Prod(Tail(a.shape)))]

\* position in data (1-based) of volume[z, c, x, y] (0-based indices)
At4(shape, z, c, x, y) ==
    ((z * shape[2] + c) * shape[3] + x) * shape[4] + y + 1

\* the channel index of the i-th (1-based) sample of a (Z, C, X, Y) array
ChannelOf(shape, i) == ((i - 1) \div (shape[3] * shape[4])) % shape[2]

\* volume[:, c, :, :] read out in (z, x, y) order
ChannelSamples(a, c) ==
    LET Z == a.shape[1]  X == a.shape[3]  Y == a.shape[4]
    IN  [k \in 1 .. Z * X * Y |->
            a.data[At4(a.shape, (k - 1) \div (X * Y),
                       c, ((k - 1) \div Y) % X, (k - 1) % Y)]]

\* np.percentile(ch, q), linear interpolation between order statistics
percentile(ch, q) ==
    LET n == Len(ch)
        sorted == SortSeq(ch, RLt)
        pos == RDiv(RMul(Num(n - 1), q), Num(100))
        lo == RFloor(pos)
        hi == IF lo + 1 > n - 1 THEN n - 1 ELSE lo + 1
        frac == RSub(pos, Num(lo))
    IN  RAdd(sorted[lo + 1], RMul(frac, RSub(sorted[hi + 1], sorted[lo + 1])))


(**************** normalize_channels_with_percentiles **********************)
\* A call's outcome: the heap it leaves, the reference it returns (0 when it
\* raises), the exception, and how many channel-level array operations ran.
Outcome(h, ret, exc, work) == [heap |-> h, ret |-> ret, exc |-> exc, work |-> work]

\* np.zeros_like(volume, dtype=np.float32) sharing the input's buffer
zeros_like_alias(h, vol) ==
    [heap |-> h, ref |-> vol]

\* np.zeros_like(volume, dtype=np.float32): a new array of the same shape
zeros_like(h, vol) ==
    [heap |-> Append(h, [shape |-> h[vol].shape,
                         data |-> [i \in 1 .. size(h[vol]) |-> Zero]]),
     ref |-> Len(h) + 1]

\* the branch without np.clip
Normalized_noclip(v, vmin, vmax) ==
    IF RLt(vmin, vmax) THEN RDiv(RSub(v, vmin), RSub(vmax, vmin)) ELSE Zero

\* the branch taken on vmax != vmin
Normalized_ne(v, vmin, vmax) ==
    IF vmax # vmin THEN clip(RDiv(RSub(v, vmin), RSub(vmax, vmin)), Zero, One)
    ELSE Zero

\* the branch with the numerator reversed
Normalized_rev(v, vmin, vmax) ==
    IF RLt(vmin, vmax) THEN clip(RDiv(RSub(vmax, v), RSub(vmax, vmin)), Zero, One)
    ELSE Zero

\* one sample of norm_volume[:, c]: the if / else on vmax > vmin
Normalized(v, vmin, vmax) ==
    IF RLt(vmin, vmax) THEN clip(RDiv(RSub(v, vmin), RSub(vmax, vmin)), Zero, One)
    ELSE Zero

\* the body of "for c in range(C)" for one channel, written into norm_volume
NormalizeChannel(h, vol, nv, c, p) ==
    LET ch == ChannelSamples(h[vol], c)
        vmin == percentile(ch, p[1])
        vmax == percentile(ch, p[2])
    IN  [h EXCEPT ![nv].data =
            [i \in 1 .. Len(h[nv].data) |->
                IF ChannelOf(h[nv].shape, i) = c
                THEN Normalized(h[vol].data[i], vmin, vmax)
                ELSE h[nv].data[i]]]

RECURSIVE NormalizeLoop(_, _, _, _, _)
NormalizeLoop(h, vol, nv, percentiles, c) ==
    IF c = h[vol].shape[2] THEN Outcome(h, nv, "none", c)
    ELSE IF c + 1 > Len(percentiles) THEN Outcome(h, 0, "IndexError", c)
    ELSE NormalizeLoop(NormalizeChannel(h, vol, nv, c, percentiles[c + 1]),
                       vol, nv, percentiles, c + 1)

normalize_channels_with_percentiles(h, vol, percentiles) ==
    IF ndim(h[vol]) # 4 THEN Outcome(h, 0, "ValueError", 0)
    ELSE LET a == zeros_like(h, vol)
         IN  NormalizeLoop(a.heap, vol, a.ref, percentiles, 0)

(*********************** multichannel_to_rgb_stack *************************)
\* np.zeros((Z, X, Y, 3), dtype=np.float32)
zeros(h, shape) ==
    [heap |-> Append(h, [shape |-> shape, data |-> [i \in 1 .. Prod(shape) |-> Zero]]),
     ref |-> Len(h) + 1]

\* coordinates (0-based) of the i-th (1-based) sample of a (Z, X, Y, 3) array
RgbZ(rs, i) == (i - 1) \div (rs[2] * rs[3] * 3)
RgbX(rs, i) == ((i - 1) \div (rs[3] * 3)) % rs[2]
RgbY(rs, i) == ((i - 1) \div 3) % rs[3]
RgbK(rs, i) == (i - 1) % 3

\* every channel is added, whatever its checkbox says
Visible_always(visibility, c) ==
    TRUE

\* "if visibility[c]"
Visible(visibility, c) ==
    visibility[c + 1]

\* the three "rgb_stack[z, :, :, k] += gray * color[k]" of one channel
Accumulate(h, vol, rgb, z, c, color) ==
    LET rs == h[rgb].shape
    IN  [h EXCEPT ![rgb].data =
            [i \in 1 .. Len(h[rgb].data) |->
                IF RgbZ(rs, i) = z
                THEN RAdd(h[rgb].data[i],
                          RMul(h[vol].data[At4(h[vol].shape, z, c,
                                               RgbX(rs, i), RgbY(rs, i))],
                               color[RgbK(rs, i) + 1]))
                ELSE h[rgb].data[i]]]

\* the slice is stored back as accumulated
ClipSample_none(v) ==
    v

\* np.clip(., 0, 1) of one sample
ClipSample(v) ==
    clip(v, Zero, One)

\* "rgb_stack[z] = np.clip(rgb_stack[z], 0, 1)"
ClipSlice(h, rgb, z) ==
    [h EXCEPT ![rgb].data =
        [i \in 1 .. Len(h[rgb].data) |->
            IF RgbZ(h[rgb].shape, i) = z THEN ClipSample(h[rgb].data[i])
            ELSE h[rgb].data[i]]]

\* "for c, (r, g, b) in enumerate(channel_colors)" of slice z, from entry c on
RECURSIVE ChannelLoop(_, _, _, _, _, _, _, _)
ChannelLoop(h, vol, rgb, channel_colors, visibility, z, c, work) ==
    IF c = Len(channel_colors) THEN Outcome(h, rgb, "none", work)
    ELSE IF c + 1 > Len(visibility) THEN Outcome(h, 0, "IndexError", work)
    ELSE IF ~Visible(visibility, c)
         THEN ChannelLoop(h, vol, rgb, channel_colors, visibility, z, c + 1, work)
    ELSE IF c + 1 > h[vol].shape[2] THEN Outcome(h, 0, "IndexError", work)
    ELSE ChannelLoop(Accumulate(h, vol, rgb, z, c, channel_colors[c + 1]),
                     vol, rgb, channel_colors, visibility, z, c + 1, work + 1)

\* "for z in range(Z)" from slice z on
RECURSIVE SliceLoop(_, _, _, _, _, _, _)
SliceLoop(h, vol, rgb, channel_colors, visibility, z, work) ==
    IF z = h[vol].shape[1] THEN Outcome(h, rgb, "none", work)
    ELSE LET r == ChannelLoop(h, vol, rgb, channel_colors, visibility, z, 0, work)
         IN  IF r.exc # "none" THEN r
             ELSE SliceLoop(ClipSlice(r.heap, rgb, z), vol, rgb,
                            channel_colors, visibility, z + 1, r.work)

multichannel_to_rgb_stack(h, vol, channel_colors, visibility) ==
    IF ndim(h[vol]) # 4 THEN Outcome(h, 0, "ValueError", 0)
    ELSE LET s == h[vol].shape
             a == zeros(h, <<s[1], s[3], s[4], 3>>)
         IN  SliceLoop(a.heap, vol, a.ref, channel_colors, visibility, 0, 0)


(***************************** the script **********************************)
\* no array (None)
NoArray == [shape |-> <<>>, data |-> <<>>]

HexVal ==
    [ch \in {"0", "1", "2", "3", "4", "5", "6", "7", "8", "9",
             "A", "B", "C", "D", "E", "F", "a", "b", "c", "d", "e", "f"} |->
        CASE ch = "0" -> 0 [] ch = "1" -> 1 [] ch = "2" -> 2 [] ch = "3" -> 3
          [] ch = "4" -> 4 [] ch = "5" -> 5 [] ch = "6" -> 6 [] ch = "7" -> 7
          [] ch = "8" -> 8 [] ch = "9" -> 9
          [] ch \in {"A", "a"} -> 10 [] ch \in {"B", "b"} -> 11
          [] ch \in {"C", "c"} -> 12 [] ch \in {"D", "d"} -> 13
          [] ch \in {"E", "e"} -> 14 [] ch \in {"F", "f"} -> 15]

\* int(hex_color[i:i+2], 16) / 255.0 for i in (1, 3, 5); a hex colour is the
\* sequence of its 7 characters
hex_to_rgb_floats(hex_color) ==
    [k \in 1 .. 3 |->
        Rat(16 * HexVal[hex_color[2 * k]] + HexVal[hex_color[2 * k + 1]], 255)]

default_colors ==
    << <<"#", "F", "F", "0", "0", "0", "0">>, <<"#", "0", "0", "F", "F", "0", "0">>,
       <<"#", "0", "0", "0", "0", "F", "F">>, <<"#", "F", "F", "F", "F", "0", "0">>,
       <<"#", "F", "F", "0", "0", "F", "F">>, <<"#", "0", "0", "F", "F", "F", "F">>,
       <<"#", "F", "F", "A", "5", "0", "0">>, <<"#", "8", "0", "0", "0", "F", "F">>,
       <<"#", "8", "8", "8", "8", "8", "8">> >>

\* the default of the percentile slider
DefaultPct == <<Num(1), Num(99)>>

\* "img.ndim == 5" with any leading axis
Collapsible_any(a) ==
    ndim(a) = 5

\* "img.ndim == 5" and "img.shape[0] == 1"
Collapsible(a) ==
    ndim(a) = 5 /\ a.shape[1] = 1

\* np.squeeze(img): every axis of size 1 removed
LeadingRemoved_squeeze(a) ==
    [shape |-> SelectSeq(a.shape, LAMBDA d : d # 1), data |-> a.data]

\* "img = img[0]"
LeadingRemoved(a) ==
    Index0(a)

\* rgb_stack[z]
Slice(a, z) ==
    LET n == Prod(Tail(a.shape))
    IN  [shape |-> Tail(a.shape), data |-> SubSeq(a.data, z * n + 1, (z + 1) * n)]

\* one sample of "(rgb_stack[z] * 255).astype(np.uint8)": the fraction is
\* dropped (samples are in [0, 1], so the product is in [0, 255])
ToUint8(v) == RFloor(RMul(v, Num(255))) % 256

AsUint8Image(a) == [shape |-> a.shape, data |-> [i \in 1 .. Len(a.data) |-> ToUint8(a.data[i])]]

\* f"z_{z:03d}.png": the digits of z, padded with zeros to three at least
RECURSIVE Digits(_)
Digits(n) == IF n < 10 THEN <<n>> ELSE Append(Digits(n \div 10), n % 10)

Pad3(z) ==
    LET d == Digits(z)
    IN  IF Len(d) >= 3 THEN d ELSE [i \in 1 .. 3 - Len(d) |-> 0] \o d

NoWidgets == [visible |-> <<>>, color |-> <<>>, pct |-> <<>>, z |-> 0]
NoLocals ==
    [img |-> 0, norm_img |-> 0, rgb_stack |-> 0, channel_visibility |-> <<>>,
     channel_colors |-> <<>>, percentiles |-> <<>>, z |-> 0]
EmptyPage == [messages |-> <<>>, image |-> NoArray, downloads |-> <<>>]

(******************* direct calls of the two functions *********************)
Lists(S, n) == [1 .. n -> S]

\* 4-D shapes (Z, C, X, Y) within the bounds
Shapes4 ==
    {s \in [1 .. 4 -> 1 .. MaxAxis] : s[2] <= MaxC /\ Prod(s) <= MaxSize}

ArraysOver(shapes, values) ==
    UNION {[shape : {s}, data : Lists(values, Prod(s))] : s \in shapes}

RawValues == {Num(v) : v \in 0 .. MaxVal}
RawVolumes == ArraysOver(Shapes4, RawValues)

\* samples of an already normalized volume
GrayLevels == {Zero, Rat(7, 10), One}
GrayVolumes == ArraysOver(Shapes4, GrayLevels)

\* percentile pairs: the full range, an interpolated high end, an empty
\* window and an inverted one (low > high)
PctSeq ==
    <<<<Num(0), Num(100)>>, <<Num(0), Num(50)>>, <<Num(50), Num(50)>>,
      <<Num(100), Num(0)>>>>
PctPairs == {PctSeq[i] : i \in 1 .. Len(PctSeq)}

Repeat(x, n) == [c \in 1 .. n |-> x]

\* one pair per channel; or full-range pairs, one short or one too many
PercentileArgs(C) ==
    Lists(PctPairs, C) \cup {Repeat(PctSeq[1], C - 1), Repeat(PctSeq[1], C + 1)}

Red == <<One, Zero, Zero>>
Grey == <<Rat(1, 2), Rat(1, 2), Rat(1, 2)>>
Palette == {Red, Grey}

\* one colour and one flag per channel; or red and visible throughout, with
\* the colours or the flags one short or one too many
RenderArgs(C) ==
    LET reds(n) == Repeat(Red, n)
        shown(n) == Repeat(TRUE, n)
    IN  (Lists(Palette, C) \X Lists(BOOLEAN, C))
            \cup {<<reds(C - 1), shown(C)>>, <<reds(C + 1), shown(C)>>,
                  <<reds(C), shown(C - 1)>>, <<reds(C), shown(C + 1)>>,
                  <<reds(C + 1), shown(C + 1)>>,
                  <<reds(C + 1), Append(shown(C), FALSE)>>}

\* the pair a caller tries after p
OtherPct(p) ==
    LET i == CHOOSE j \in 1 .. Len(PctSeq) : PctSeq[j] = p
    IN  PctSeq[(i % Len(PctSeq)) + 1]

OtherColor(col) == IF col = Red THEN Grey ELSE Red

\* a caller's next arguments: anything at first; after a call with one entry
\* per channel, the same with one entry changed; otherwise full-range pairs,
\* or red and visible, for every channel
NextPercentiles(C) ==
    IF call.fn = "none" THEN PercentileArgs(C)
    ELSE IF call.fn = "normalize" /\ Len(call.args[1]) = C
         THEN LET p == call.args[1]
              IN  {[p EXCEPT ![c] = OtherPct(p[c])] : c \in 1 .. C}
    ELSE {Repeat(PctSeq[1], C)}

NextRenderArgs(C) ==
    IF call.fn = "none" THEN RenderArgs(C)
    ELSE IF call.fn = "render" /\ Len(call.args[1]) = C /\ Len(call.args[2]) = C
         THEN LET cs == call.args[1]
                  vs == call.args[2]
              IN  {<<[cs EXCEPT ![c] = OtherColor(cs[c])], vs>> : c \in 1 .. C}
                      \cup {<<cs, [vs EXCEPT ![c] = ~vs[c]]>> : c \in 1 .. C}
    ELSE {<<Repeat(Red, C), Repeat(TRUE, C)>>}

IsRaw(a) == \A i \in 1 .. Len(a.data) : a.data[i] \in RawValues
IsGray(a) == \A i \in 1 .. Len(a.data) : a.data[i] \in GrayLevels

NoCall ==
    [fn |-> "none", args |-> <<>>, ret |-> 0, exc |-> "none", work |-> 0, n |-> 0]

InitCalls(volumes) ==
    /\ orig \in volumes
    /\ heap = <<orig>>
    /\ call = NoCall
    /\ pc = "idle"
    /\ uploaded_file = NoArray
    /\ widgets = NoWidgets
    /\ locals = NoLocals
    /\ page = EmptyPage
    /\ invoked = {}
    /\ last = NoArray

InitNorm == InitCalls(RawVolumes)
InitRgb == InitCalls(GrayVolumes)
InitCore == InitCalls(RawVolumes \cup GrayVolumes)

\* what the caller holds after a call: its argument, and the returned array
\* if there is one (the result of the call before is released)
Held(r) == IF r.exc = "none" THEN r.heap ELSE SubSeq(r.heap, 1, 1)

CallNormalize ==
    /\ IsRaw(orig)
    /\ call.n < MaxCalls
    /\ \E percentiles \in NextPercentiles(orig.shape[2]) :
          LET r == normalize_channels_with_percentiles(
                       SubSeq(heap, 1, 1), 1, percentiles)
          IN  /\ heap' = Held(r)
              /\ call' = [fn |-> "normalize", args |-> <<percentiles>>,
                          ret |-> r.ret, exc |-> r.exc, work |-> r.work,
                          n |-> call.n + 1]
    /\ UNCHANGED <<orig, appvars>>

CallRender ==
    /\ IsGray(orig)
    /\ call.n < MaxCalls
    /\ \E a \in NextRenderArgs(orig.shape[2]) :
          LET r == multichannel_to_rgb_stack(SubSeq(heap, 1, 1), 1, a[1], a[2])
          IN  /\ heap' = Held(r)
              /\ call' = [fn |-> "render", args |-> a,
                          ret |-> r.ret, exc |-> r.exc, work |-> r.work,
                          n |-> call.n + 1]
    /\ UNCHANGED <<orig, appvars>>

NextCore == CallNormalize \/ CallRender

\* normalize_channels_with_percentiles called on raw volumes
SpecNorm == InitNorm /\ [][CallNormalize]_vars
\* multichannel_to_rgb_stack called on normalized volumes
SpecRgb == InitRgb /\ [][CallRender]_vars
\* both
SpecCore == InitCore /\ [][NextCore]_vars

(************************** the script, run ********************************)
\* shapes of uploaded arrays: 3 to 5 axes; the bound on the channel axis
\* applies to the axis that holds the channels once the shape is accepted
UploadShapes ==
    {s \in UNION {[1 .. n -> 1 .. MaxAxis] : n \in 3 .. 5} :
        /\ Prod(s) <= MaxSize
        /\ Len(s) = 4 => s[2] <= MaxC
        /\ Len(s) = 5 => s[3] <= MaxC}

\* sample patterns: constant or a ramp modulo MaxVal + 1
UploadData(n) ==
    {[i \in 1 .. n |-> Num((a + (i - 1) * b) % (MaxVal + 1))] :
        a \in 0 .. MaxVal, b \in 0 .. 1}

Uploads == UNION {[shape : {s}, data : UploadData(Prod(s))] : s \in UploadShapes}

\* what the user picks in a colour picker
Picks == {<<"#", "F", "F", "0", "0", "0", "0">>, <<"#", "8", "8", "8", "8", "8", "8">>}
\* where the user drags a percentile slider (low <= high, steps of 0.5)
SliderChoices == {DefaultPct, <<Num(0), Num(100)>>}

Init ==
    /\ heap = <<>>
    /\ orig = NoArray
    /\ call = NoCall
    /\ pc = "idle"
    /\ uploaded_file = NoArray
    /\ widgets = NoWidgets
    /\ locals = NoLocals
    /\ page = EmptyPage
    /\ invoked = {}
    /\ last = NoArray

\* the script starts over: nothing of the run before is left
StartRun ==
    /\ pc' = "imread"
    /\ heap' = <<>>
    /\ locals' = NoLocals
    /\ page' = EmptyPage
    /\ invoked' = {}
    /\ UNCHANGED <<orig, call>>

Upload ==
    /\ pc = "idle"
    /\ uploaded_file = NoArray
    /\ uploaded_file' \in Uploads
    /\ StartRun
    /\ UNCHANGED <<widgets, last>>

\* img = tifffile.imread(uploaded_file)
Imread ==
    /\ pc = "imread"
    /\ heap' = <<uploaded_file>>
    /\ locals' = [locals EXCEPT !.img = 1]
    /\ pc' = "shape5"
    /\ UNCHANGED <<orig, call, uploaded_file, widgets, page, invoked, last>>

Say(msg) == [page EXCEPT !.messages = Append(@, msg)]

\* "if img.ndim == 5": img[0] is a view of the same buffer, and the name img
\* is rebound to it
Shape5 ==
    /\ pc = "shape5"
    /\ LET a == heap[locals.img]
       IN  IF ndim(a) = 5
           THEN IF Collapsible(a)
                THEN /\ heap' = [heap EXCEPT ![locals.img] = LeadingRemoved(a)]
                     /\ pc' = "shape4"
                     /\ page' = page
                ELSE /\ page' = Say("only_4d_or_1zcxy")
                     /\ pc' = "stopped"
                     /\ heap' = heap
           ELSE /\ pc' = "shape4"
                /\ UNCHANGED <<heap, page>>
    /\ UNCHANGED <<orig, call, uploaded_file, widgets, locals, invoked, last>>

\* "if img.ndim != 4", then "Z, C, X, Y = img.shape" and st.success
Shape4 ==
    /\ pc = "shape4"
    /\ IF ndim(heap[locals.img]) # 4
       THEN /\ page' = Say("unsupported_shape")
            /\ pc' = "stopped"
       ELSE /\ page' = Say("loaded")
            /\ pc' = "controls"
    /\ UNCHANGED <<heap, orig, call, uploaded_file, widgets, locals, invoked, last>>

\* a list of widget values grown to the length of the list of defaults
Grown(l, defaults) ==
    [c \in 1 .. (IF Len(defaults) > Len(l) THEN Len(defaults) ELSE Len(l)) |->
        IF c <= Len(l) THEN l[c] ELSE defaults[c]]

\* the left column: a checkbox and a colour picker per channel, then a
\* percentile slider per channel
Controls ==
    /\ pc = "controls"
    /\ LET C == heap[locals.img].shape[2]
           w == [widgets EXCEPT
                    !.visible = Grown(@, [c \in 1 .. C |-> TRUE]),
                    !.color = Grown(@, [c \in 1 .. C |->
                        default_colors[((c - 1) % Len(default_colors)) + 1]]),
                    !.pct = Grown(@, [c \in 1 .. C |-> DefaultPct])]
       IN  /\ widgets' = w
           /\ locals' = [locals EXCEPT
                  !.channel_visibility = SubSeq(w.visible, 1, C),
                  !.channel_colors = [c \in 1 .. C |-> hex_to_rgb_floats(w.color[c])],
                  !.percentiles = SubSeq(w.pct, 1, C)]
    /\ pc' = "normalize"
    /\ UNCHANGED <<heap, orig, call, uploaded_file, page, invoked, last>>

\* "except Exception as e: st.error(...)": the run ends there
Caught ==
    /\ page' = Say("error_processing")
    /\ pc' = "idle"

Normalize ==
    /\ pc = "normalize"
    /\ invoked' = invoked \cup {"normalize_channels_with_percentiles"}
    /\ LET r == normalize_channels_with_percentiles(heap, locals.img, locals.percentiles)
       IN  IF r.exc # "none"
           THEN Caught /\ UNCHANGED <<heap, locals>>
           ELSE /\ heap' = r.heap
                /\ locals' = [locals EXCEPT !.norm_img = r.ret]
                /\ pc' = "render"
                /\ page' = page
    /\ UNCHANGED <<orig, call, uploaded_file, widgets, last>>

Render ==
    /\ pc = "render"
    /\ invoked' = invoked \cup {"multichannel_to_rgb_stack"}
    /\ LET r == multichannel_to_rgb_stack(heap, locals.norm_img,
                    locals.channel_colors, locals.channel_visibility)
       IN  IF r.exc # "none"
           THEN Caught /\ UNCHANGED <<heap, locals>>
           ELSE /\ heap' = r.heap
                /\ locals' = [locals EXCEPT !.rgb_stack = r.ret]
                /\ pc' = "view"
                /\ page' = page
    /\ UNCHANGED <<orig, call, uploaded_file, widgets, last>>

\* z = st.slider("Z-slice index", 0, Z-1, 0), then st.image.  With Z = 1 the
\* slider is asked for the range 0 .. 0, which the library either refuses
\* with an exception or shows with the value 0
View ==
    /\ pc = "view"
    /\ LET Z == heap[locals.img].shape[1]
       IN  \/ /\ Z = 1
              /\ Caught
              /\ UNCHANGED locals
           \/ /\ locals' = [locals EXCEPT !.z = 0]
              /\ page' = [page EXCEPT !.image =
                            AsUint8Image(Slice(heap[locals.rgb_stack], widgets.z))]
              /\ pc' = "export"
    /\ UNCHANGED <<heap, orig, call, uploaded_file, widgets, invoked, last>>

\* one turn of "for z in range(Z)": a PNG of the slice and its download button
Export ==
    /\ pc = "export"
    /\ LET Z == heap[locals.img].shape[1]
           z == locals.z
       IN  /\ page' = [page EXCEPT !.downloads = Append(@,
                  [file_name |-> Pad3(z),
                   data |-> AsUint8Image(Slice(heap[locals.rgb_stack], z))])]
           /\ IF z + 1 < Z
              THEN locals' = [locals EXCEPT !.z = z + 1] /\ pc' = pc
              ELSE locals' = locals /\ pc' = "idle"
    /\ UNCHANGED <<heap, orig, call, uploaded_file, widgets, invoked, last>>

\* the script waits with the controls on the page
ControlsShown == pc = "idle" /\ Len(locals.channel_visibility) > 0

Toggle ==
    /\ ControlsShown
    /\ \E c \in 1 .. Len(locals.channel_visibility) :
          widgets' = [widgets EXCEPT !.visible[c] = ~@]
    /\ last' = NoArray
    /\ StartRun
    /\ UNCHANGED uploaded_file

PickColor ==
    /\ ControlsShown
    /\ \E c \in 1 .. Len(locals.channel_visibility) :
          \E h \in Picks \ {widgets.color[c]} :
              widgets' = [widgets EXCEPT !.color[c] = h]
    /\ last' = NoArray
    /\ StartRun
    /\ UNCHANGED uploaded_file

SlidePercentile ==
    /\ ControlsShown
    /\ \E c \in 1 .. Len(locals.channel_visibility) :
          \E p \in SliderChoices \ {widgets.pct[c]} :
              widgets' = [widgets EXCEPT !.pct[c] = p]
    /\ last' = NoArray
    /\ StartRun
    /\ UNCHANGED uploaded_file

SlideZ ==
    /\ pc = "idle"
    /\ page.image # NoArray
    /\ \E z \in 0 .. heap[locals.img].shape[1] - 1 :
          /\ z # widgets.z
          /\ widgets' = [widgets EXCEPT !.z = z]
    /\ last' = NoArray
    /\ StartRun
    /\ UNCHANGED uploaded_file

\* the user uploads the same samples in the other layout: (Z, C, X, Y) as
\* (1, Z, C, X, Y) and the reverse
Reupload ==
    /\ pc = "idle"
    /\ locals.rgb_stack # 0
    /\ last = NoArray
    /\ uploaded_file' =
          IF ndim(uploaded_file) = 4
          THEN [shape |-> <<1>> \o uploaded_file.shape, data |-> uploaded_file.data]
          ELSE [shape |-> Tail(uploaded_file.shape), data |-> uploaded_file.data]
    /\ last' = heap[locals.rgb_stack]
    /\ StartRun
    /\ UNCHANGED widgets

Next ==
    \/ Upload \/ Imread \/ Shape5 \/ Shape4 \/ Controls \/ Normalize \/ Render
    \/ View \/ Export
    \/ Toggle \/ PickColor \/ SlidePercentile \/ SlideZ \/ Reupload

Spec == Init /\ [][Next]_vars

(******************************* claims ************************************)
Clamp01(v) == IF RLt(v, Zero) THEN Zero ELSE IF RLt(One, v) THEN One ELSE v

InUnit(v) == RLe(Zero, v) /\ RLe(v, One)

\* the last direct call was normalize_channels_with_percentiles and returned
Normalized_ok == call.fn = "normalize" /\ call.exc = "none"
\* the last direct call was multichannel_to_rgb_stack and returned
Rendered_ok == call.fn = "render" /\ call.exc = "none"

Channels == 0 .. orig.shape[2] - 1
Out == heap[call.ret].data
\* the percentile values of channel c in the last normalize call
Vmin(c) == percentile(ChannelSamples(orig, c), call.args[1][c + 1][1])
Vmax(c) == percentile(ChannelSamples(orig, c), call.args[1][c + 1][2])
SamplesOf(c) == {i \in 1 .. Len(orig.data) : ChannelOf(orig.shape, i) = c}
Scaled(i, c) ==
    Clamp01(RDiv(RSub(orig.data[i], Vmin(c)), RSub(Vmax(c), Vmin(c))))

\* C1: every sample normalize_channels_with_percentiles returns lies in
\* [0, 1], for every volume and every percentile pair, low > high and
\* constant channels included.
C1_NormalizedInUnit ==
    Normalized_ok => \A i \in 1 .. Len(Out) : InUnit(Out[i])

\* a sample above its channel's vmax was clipped to 1
C1_Witness ==
    /\ Normalized_ok
    /\ Len(call.args[1]) = orig.shape[2]
    /\ \E c \in Channels : \E i \in SamplesOf(c) :
          /\ RLt(Vmin(c), Vmax(c))
          /\ RLt(Vmax(c), orig.data[i])
          /\ Out[i] = One

\* C2: a call with one percentile pair per channel returns without an
\* error; every sample of a channel with vmax <= vmin is exactly 0, and the
\* other channels are normalized as usual.
C2_DegenerateChannelBlank ==
    (call.fn = "normalize" /\ Len(call.args[1]) = orig.shape[2]) =>
        /\ call.exc = "none"
        /\ \A c \in Channels : \A i \in SamplesOf(c) :
              IF RLe(Vmax(c), Vmin(c)) THEN Out[i] = Zero
              ELSE Out[i] = Scaled(i, c)

\* an inverted window on varying samples (vmax < vmin) next to a channel
\* that is normalized to something other than 0
C2_Witness ==
    /\ Normalized_ok
    /\ Len(call.args[1]) = orig.shape[2]
    /\ \E c \in Channels : \E d \in Channels :
          /\ RLt(Vmax(c), Vmin(c))
          /\ RLt(Vmin(d), Vmax(d))
          /\ \E i \in SamplesOf(d) : Out[i] # Zero

\* C9: in a channel with vmax > vmin the output is monotonic non-decreasing
\* in the raw sample, and equals clip((v - vmin) / (vmax - vmin), 0, 1).
C9_Monotonic ==
    (Normalized_ok /\ Len(call.args[1]) = orig.shape[2]) =>
        \A c \in Channels :
            RLt(Vmin(c), Vmax(c)) =>
                /\ \A i \in SamplesOf(c) : \A j \in SamplesOf(c) :
                      RLe(orig.data[i], orig.data[j]) => RLe(Out[i], Out[j])
                /\ \A i \in SamplesOf(c) : Out[i] = Scaled(i, c)

\* two samples a < b of a channel with outputs 0 < out(a) < out(b)
C9_Witness ==
    /\ Normalized_ok
    /\ Len(call.args[1]) = orig.shape[2]
    /\ \E c \in Channels : \E i \in SamplesOf(c) : \E j \in SamplesOf(c) :
          /\ RLt(Vmin(c), Vmax(c))
          /\ RLt(orig.data[i], orig.data[j])
          /\ RLt(Zero, Out[i])
          /\ RLt(Out[i], Out[j])

\* the arguments of the last render call have one entry per channel
RenderArgsMatch ==
    Len(call.args[1]) = orig.shape[2] /\ Len(call.args[2]) = orig.shape[2]

\* sum over the visible channels 1 .. c of volume[z, c, x, y] * color[c][k]
RECURSIVE VisibleSum(_, _, _, _, _)
VisibleSum(z, x, y, k, c) ==
    IF c = 0 THEN Zero
    ELSE RAdd(VisibleSum(z, x, y, k, c - 1),
              IF call.args[2][c]
              THEN RMul(orig.data[At4(orig.shape, z, c - 1, x, y)], call.args[1][c][k])
              ELSE Zero)

\* the unclamped sum behind the i-th sample of the returned (Z, X, Y, 3) stack
SumAt(i) ==
    LET rs == heap[call.ret].shape
    IN  VisibleSum(RgbZ(rs, i), RgbX(rs, i), RgbY(rs, i), RgbK(rs, i) + 1,
                   orig.shape[2])

\* C3: every sample multichannel_to_rgb_stack returns lies in [0, 1], also
\* where the visible channels' contributions sum above 1.
C3_RgbInUnit ==
    Rendered_ok => \A i \in 1 .. Len(Out) : InUnit(Out[i])

\* two visible channels of different colours sum above 1 at a sample
C3_Witness ==
    /\ Rendered_ok
    /\ RenderArgsMatch
    /\ orig.shape[2] = 2
    /\ call.args[1][1] # call.args[1][2]
    /\ \E i \in 1 .. Len(Out) : RLt(One, SumAt(i)) /\ Out[i] = One

\* C4: every returned sample is the sum over the visible channels of
\* volume[z, c, x, y] * color[c][k], clamped once to [0, 1]; all zeros when
\* no channel is visible; 1.0 on the red plane where two visible pure-red
\* channels are both 0.7.
C4_ClampedVisibleSum ==
    (Rendered_ok /\ RenderArgsMatch) =>
        /\ \A i \in 1 .. Len(Out) : Out[i] = Clamp01(SumAt(i))
        /\ (\A c \in 1 .. orig.shape[2] : ~call.args[2][c]) =>
              \A i \in 1 .. Len(Out) : Out[i] = Zero
        /\ (/\ orig.shape[2] = 2
            /\ call.args[1] = <<Red, Red>>
            /\ call.args[2] = <<TRUE, TRUE>>) =>
              \A i \in 1 .. Len(Out) :
                  LET rs == heap[call.ret].shape
                      v(c) == orig.data[At4(orig.shape, RgbZ(rs, i), c,
                                            RgbX(rs, i), RgbY(rs, i))]
                  IN  (v(0) = Rat(7, 10) /\ v(1) = Rat(7, 10)) =>
                          Out[i] = (IF RgbK(rs, i) = 0 THEN One ELSE Zero)

\* two visible pure-red channels, both 0.7 at a pixel: the raw sum on the
\* red plane is 1.4 and the returned sample is 1
C4_Witness ==
    /\ Rendered_ok
    /\ RenderArgsMatch
    /\ call.args[1] = <<Red, Red>>
    /\ call.args[2] = <<TRUE, TRUE>>
    /\ \E i \in 1 .. Len(Out) : SumAt(i) = Rat(7, 5) /\ Out[i] = One

\* the last direct call was handed a list whose length is not C
Mismatch ==
    \/ call.fn = "normalize" /\ Len(call.args[1]) # orig.shape[2]
    \/ call.fn = "render" /\ ~RenderArgsMatch

\* C5: a call whose percentile, colour or visibility list has a length other
\* than C raises an error, returns nothing, and has done no numeric work.
C5_MismatchSignalled ==
    Mismatch => call.exc # "none" /\ call.ret = 0 /\ call.work = 0

\* what the last call returns when it is the only call made on the volume
Alone ==
    LET r == IF call.fn = "normalize"
             THEN normalize_channels_with_percentiles(<<orig>>, 1, call.args[1])
             ELSE multichannel_to_rgb_stack(<<orig>>, 1, call.args[1], call.args[2])
    IN  IF r.exc = "none" THEN r.heap[r.ret] ELSE NoArray

\* C10: no call changes the array it is given; a call that returns, returns
\* a newly allocated array, and its content is what the same call returns
\* when nothing was called before it.
C10_InputsUntouched ==
    call.fn # "none" =>
        /\ heap[1] = orig
        /\ call.exc = "none" =>
              /\ call.ret = 2
              /\ Len(heap) = 2
              /\ heap[call.ret] = Alone

\* a second call, with other arguments, has returned
C10_Witness ==
    /\ call.n = 2
    /\ call.exc = "none"
    /\ heap[call.ret] # orig
    /\ \E i \in 1 .. Len(Out) : Out[i] # Zero

\* the upload is 5-D with a leading axis other than 1, or neither 4-D nor 5-D
UnsupportedUpload ==
    /\ uploaded_file # NoArray
    /\ \/ ndim(uploaded_file) = 5 /\ uploaded_file.shape[1] # 1
       \/ ndim(uploaded_file) \notin {4, 5}

\* C6: for such an upload the run stops with the unsupported-shape error:
\* neither transform function is called, no slice is shown or offered.
C6_UnsupportedShapeStops ==
    UnsupportedUpload =>
        /\ invoked = {}
        /\ page.image = NoArray
        /\ page.downloads = <<>>
        /\ pc \in {"imread", "shape5", "shape4", "stopped"}
        /\ pc = "stopped" =>
              page.messages \in {<<"only_4d_or_1zcxy">>, <<"unsupported_shape">>}

\* a 5-D upload with two leading blocks has stopped the run
C6_Witness ==
    /\ UnsupportedUpload
    /\ ndim(uploaded_file) = 5
    /\ pc = "stopped"

\* C7: the same samples uploaded as (Z, C, X, Y) and as (1, Z, C, X, Y),
\* with the same percentiles, colours and visibility, give the same RGB stack.
C7_CollapseSameRgb ==
    last # NoArray =>
        /\ pc \in {"idle", "stopped"} => locals.rgb_stack # 0
        /\ locals.rgb_stack # 0 => heap[locals.rgb_stack] = last

\* the 5-D run has finished after the 4-D one, on a stack that is not black
C7_Witness ==
    /\ last # NoArray
    /\ pc = "idle"
    /\ ndim(uploaded_file) = 5
    /\ locals.rgb_stack # 0
    /\ \E i \in 1 .. Len(last.data) : last.data[i] # Zero

\* the nearest integer to v * 255
Rounded(v) == RFloor(RAdd(RMul(v, Num(255)), Rat(1, 2)))

\* C8: every 8-bit sample shown or exported is round(v * 255) of the RGB
\* sample v it comes from.
C8_RoundedQuantization ==
    /\ page.image # NoArray =>
          LET src == Slice(heap[locals.rgb_stack], widgets.z)
          IN  \A i \in 1 .. Len(src.data) : page.image.data[i] = Rounded(src.data[i])
    /\ \A z \in 1 .. Len(page.downloads) :
          LET src == Slice(heap[locals.rgb_stack], z - 1)
          IN  \A i \in 1 .. Len(src.data) :
                  page.downloads[z].data.data[i] = Rounded(src.data[i])

=============================================================================
